---------------------------- MODULE Spec2Model ----------------------------
(***************************************************************************)
(* The OCI registry getter of helm (internal/experimental/registry and     *)
(* pkg/getter): Getter.Get, Getter.Filename, the RegistryGetter wrappers,   *)
(* and the version-aware entry points the test suite exercises              *)
(* (Getter.URL, Getter.GetWithDetails).                                     *)
(*                                                                         *)
(* Strings are sequences of one-character strings.  An href is             *)
(* "oci://" followed by the text kept in the variable href; the scheme is   *)
(* fixed by the provider (Schemes: []string{"oci"}) and is left implicit.   *)
(***************************************************************************)
EXTENDS Naturals, Sequences, FiniteSets

\* Bound: the longest locator text (after "oci://") that is enumerated.
MaxLen == 5

\* Bound: the longest explicit version that is enumerated.
MaxVerLen == 1

\* Characters of a locator: a letter, a digit, the path and the tag separator.
Chars == {"a", "5", "/", ":"}

Digits == {"5"}

\* Characters a version tag is made of.
TagChars == {"a", "5"}

StringsOver(S, n) == UNION {[1..k -> S] : k \in 0..n}

Locators == StringsOver(Chars, MaxLen)

Versions == StringsOver(TagChars, MaxVerLen)

\* Go's nil error / the empty string of an absent value.
Nil == "nil"

----------------------------------------------------------------------------
(* String helpers (package strings).                                       *)

\* strings.Index(s, c) + 1, 0 when c does not occur.
IndexOf(s, c) ==
    IF \E i \in 1..Len(s) : s[i] = c
    THEN CHOOSE i \in 1..Len(s) : s[i] = c /\ \A j \in 1..(i-1) : s[j] # c
    ELSE 0

\* strings.LastIndex(s, c) + 1, 0 when c does not occur.
LastIndexOf(s, c) ==
    IF \E i \in 1..Len(s) : s[i] = c
    THEN CHOOSE i \in 1..Len(s) : s[i] = c /\ \A j \in (i+1)..Len(s) : s[j] # c
    ELSE 0

\* s[:n] and s[n:] in Go's zero-based slices.
Take(s, n) == SubSeq(s, 1, n)

Drop(s, n) == SubSeq(s, n + 1, Len(s))

\* strings.Split(s, ":")[0]
SplitFirst(s) ==
    IF IndexOf(s, ":") = 0 THEN s ELSE Take(s, IndexOf(s, ":") - 1)

\* The length of s once its trailing slashes are removed.
TrimmedLen(s) ==
    IF \E i \in 1..Len(s) : s[i] # "/"
    THEN CHOOSE i \in 1..Len(s) : s[i] # "/" /\ \A j \in (i+1)..Len(s) : s[j] = "/"
    ELSE 0

\* filepath.Base: "." for the empty path, trailing slashes stripped, the text
\* after the last remaining slash, "/" for a path made of slashes only.
Base(path) ==
    IF path = <<>> THEN <<".">>
    ELSE LET t == Take(path, TrimmedLen(path))
         IN  IF t = <<>> THEN <<"/">> ELSE Drop(t, LastIndexOf(t, "/"))

----------------------------------------------------------------------------
(* url.Parse on "oci://" \o h: the authority runs to the first slash, the   *)
(* rest is the path; a host with a colon must end in an optional numeric    *)
(* port (net/url parseHost, validOptionalPort).                             *)

UrlParse(h) ==
    LET i    == IndexOf(h, "/")
        auth == IF i = 0 THEN h ELSE Take(h, i - 1)
        path == IF i = 0 THEN <<>> ELSE Drop(h, i - 1)
        j    == LastIndexOf(auth, ":")
        port == Drop(auth, j)
    IN  IF j # 0 /\ \E k \in 1..Len(port) : port[k] \notin Digits
        THEN [err |-> "invalid port", Host |-> <<>>, Path |-> <<>>]
        ELSE [err |-> Nil, Host |-> auth, Path |-> path]

----------------------------------------------------------------------------
(* Reference and ParseReference (reference.go).  A Reference has a host, a  *)
(* repository path and an optional tag; the tag is present when the last    *)
(* path segment holds a ':' separator.  A reference needs a host and a      *)
(* named repository.                                                        *)

NoRef == [host |-> <<>>, repo |-> <<>>, hasTag |-> FALSE, tag |-> <<>>]

ParseReference(s) ==
    LET i    == IndexOf(s, "/")
        host == IF i = 0 THEN s ELSE Take(s, i - 1)
        rest == IF i = 0 THEN <<>> ELSE Drop(s, i)
        k    == LastIndexOf(rest, "/")
        seg  == Drop(rest, k)
        c    == IndexOf(seg, ":")
        name == IF c = 0 THEN seg ELSE Take(seg, c - 1)
    IN  IF host = <<>> \/ name = <<>>
        THEN [err |-> "MalformedReference", ref |-> NoRef]
        ELSE [err |-> Nil,
              ref |-> [host   |-> host,
                       repo   |-> Take(rest, k) \o name,
                       hasTag |-> c # 0,
                       tag    |-> IF c = 0 THEN <<>> ELSE Drop(seg, c)]]

----------------------------------------------------------------------------
(* Getter.URL(u, version): the reference resolver.                          *)

\* Mutant: an untagged locator without a version falls back to a default tag.
URLDefaultTag(u, v) ==
    LET p == ParseReference(u.Host \o u.Path)
    IN  IF p.err # Nil THEN [err |-> p.err, url |-> <<>>]
        ELSE IF p.ref.hasTag THEN [err |-> Nil, url |-> u.Host \o u.Path]
        ELSE IF v # <<>> THEN [err |-> Nil, url |-> u.Host \o u.Path \o <<":">> \o v]
        ELSE [err |-> Nil, url |-> u.Host \o u.Path \o <<":", "a">>]

URL(u, v) ==
    LET p == ParseReference(u.Host \o u.Path)
    IN  IF p.err # Nil THEN [err |-> p.err, url |-> <<>>]
        ELSE IF p.ref.hasTag THEN [err |-> Nil, url |-> u.Host \o u.Path]
        ELSE IF v # <<>> THEN [err |-> Nil, url |-> u.Host \o u.Path \o <<":">> \o v]
        ELSE [err |-> "MissingVersion", url |-> <<>>]

----------------------------------------------------------------------------
(* Getter.Filename(u, version).                                             *)

\* Mutant: the tag is not stripped from the last element.
FilenameKeepTag(u, v) ==
    Base(u.Path) \o <<"-">> \o v \o <<".", "t", "g", "z">>

Filename(u, v) ==
    SplitFirst(Base(u.Path)) \o <<"-">> \o v \o <<".", "t", "g", "z">>

----------------------------------------------------------------------------
(* Collaborators: the registry client and the chart archive writer.         *)

\* Charts the test registry holds (name, version).
Charts == {[name |-> "testchart", version |-> "0.1.0"],
           [name |-> "testchart", version |-> "1.2.3"]}

NoChart == [name |-> "", version |-> ""]

PullErrs == {"pull: not found", "pull: unauthorized"}

LoadErrs == {"load: not in cache"}

WriteErrs == {"write: invalid chart"}

\* chartutil.Write: the gzipped tar of a chart, as the sequence of its blocks.
Tgz(c) == <<"gzip", c.name, c.version>>

\* bytes.Buffer: nil, or a buffer holding bytes.
NoBuf == [isNil |-> TRUE, bytes |-> <<>>]

NewBuffer == [isNil |-> FALSE, bytes |-> <<>>]

NoResult == [buf |-> NoBuf, err |-> Nil, str |-> <<>>]

NoPrev == [set |-> FALSE, op |-> "none", chart |-> NoChart, bytes |-> <<>>]

----------------------------------------------------------------------------
VARIABLES
    href,      \* the locator of the calls (the text after "oci://")
    version,   \* the explicit version of the calls
    op,        \* the entry point that is running
    pc,        \* where the running call stands
    ref,       \* Get's ref
    chart,     \* Get's c
    calls,     \* the collaborator calls of the running call, in order
    result,    \* what the call returned
    prev       \* the last successful retrieval before this call

vars == <<href, version, op, pc, ref, chart, calls, result, prev>>

Init ==
    /\ href \in Locators
    /\ version \in Versions
    /\ op = "none"
    /\ pc = "idle"
    /\ ref = NoRef
    /\ chart = NoChart
    /\ calls = <<>>
    /\ result = NoResult
    /\ prev = NoPrev

\* Mutant: the host is left out of the reference.
RefArgPathOnly(u) == u.Path

\* Mutant: the path is left out of the reference.
RefArgHostOnly(u) == u.Host

\* Get's argument to ParseReference (getter.go line 40).
RefArg(u) == u.Host \o u.Path

\* Mutant: the error of ParseReference is not checked.
GetBeginUnchecked(h) ==
    LET u == UrlParse(h)
        p == ParseReference(RefArg(u))
    IN  /\ calls' = <<>>
        /\ chart' = NoChart
        /\ IF u.err # Nil
           THEN /\ pc' = "done"
                /\ ref' = NoRef
                /\ result' = [buf |-> NoBuf, err |-> u.err, str |-> <<>>]
           ELSE /\ pc' = "pull"
                /\ ref' = p.ref
                /\ result' = NoResult

\* Get(h) up to the first collaborator call: url.Parse, ParseReference and
\* their early returns.
GetBegin(h) ==
    LET u == UrlParse(h)
        p == ParseReference(RefArg(u))
    IN  /\ calls' = <<>>
        /\ chart' = NoChart
        /\ IF u.err # Nil
           THEN /\ pc' = "done"
                /\ ref' = NoRef
                /\ result' = [buf |-> NoBuf, err |-> u.err, str |-> <<>>]
           ELSE IF p.err # Nil
           THEN /\ pc' = "done"
                /\ ref' = NoRef
                /\ result' = [buf |-> NoBuf, err |-> p.err, str |-> <<>>]
           ELSE /\ pc' = "pull"
                /\ ref' = p.ref
                /\ result' = NoResult

\* RegistryGetter.Get(href, options...): the options are not read.
Get ==
    /\ pc = "idle"
    /\ op' = "Get"
    /\ GetBegin(href)
    /\ UNCHANGED <<href, version, prev>>

\* Getter.GetWithDetails(u, version): resolve, then retrieve what was resolved.
GetWithDetails ==
    /\ pc = "idle"
    /\ UrlParse(href).err = Nil
    /\ op' = "GetWithDetails"
    /\ LET r == URL(UrlParse(href), version)
       IN  IF r.err # Nil
           THEN /\ pc' = "done"
                /\ result' = [buf |-> NoBuf, err |-> r.err, str |-> <<>>]
                /\ ref' = NoRef
                /\ chart' = NoChart
                /\ calls' = <<>>
           ELSE GetBegin(r.url)
    /\ UNCHANGED <<href, version, prev>>

\* Mutant: the error of PullChart is dropped and the chart is loaded anyway.
PullChartIgnoreErr ==
    /\ pc = "pull"
    /\ \E e \in {Nil} \cup PullErrs :
         calls' = Append(calls, [fn |-> "PullChart", ref |-> ref, chart |-> NoChart,
                                 out |-> <<>>, err |-> e])
    /\ pc' = "load"
    /\ UNCHANGED <<href, version, op, ref, chart, result, prev>>

\* Mutant: a failed pull is tried again.
PullChartRetry ==
    /\ pc = "pull"
    /\ \E e \in {Nil} \cup PullErrs :
         /\ calls' = Append(calls, [fn |-> "PullChart", ref |-> ref, chart |-> NoChart,
                                    out |-> <<>>, err |-> e])
         /\ pc' = IF e # Nil /\ Len(calls) < 1 THEN "pull"
                  ELSE IF e # Nil THEN "done" ELSE "load"
         /\ result' = IF e # Nil /\ Len(calls) >= 1
                      THEN [buf |-> NoBuf, err |-> e, str |-> <<>>]
                      ELSE result
    /\ UNCHANGED <<href, version, op, ref, chart, prev>>

\* err = g.Client.PullChart(ref)
PullChart ==
    /\ pc = "pull"
    /\ \E e \in {Nil} \cup PullErrs :
         /\ calls' = Append(calls, [fn |-> "PullChart", ref |-> ref, chart |-> NoChart,
                                    out |-> <<>>, err |-> e])
         /\ IF e # Nil
            THEN /\ pc' = "done"
                 /\ result' = [buf |-> NoBuf, err |-> e, str |-> <<>>]
            ELSE /\ pc' = "load"
                 /\ UNCHANGED result
    /\ UNCHANGED <<href, version, op, ref, chart, prev>>

\* c, err := g.Client.LoadChart(ref)
LoadChart ==
    /\ pc = "load"
    /\ \E o \in [chart : Charts, err : {Nil}] \cup [chart : {NoChart}, err : LoadErrs] :
         /\ calls' = Append(calls, [fn |-> "LoadChart", ref |-> ref, chart |-> o.chart,
                                    out |-> <<>>, err |-> o.err])
         /\ IF o.err # Nil
            THEN /\ pc' = "done"
                 /\ chart' = NoChart
                 /\ result' = [buf |-> NoBuf, err |-> o.err, str |-> <<>>]
            ELSE /\ pc' = "encode"
                 /\ chart' = o.chart
                 /\ UNCHANGED result
    /\ UNCHANGED <<href, version, op, ref, prev>>

\* What chartutil.Write(c, buf) can do: write the whole archive, or fail
\* after writing a part of it.
WriteOutcomes(c) ==
    {[n |-> Len(Tgz(c)), err |-> Nil]}
        \cup {[n |-> k, err |-> e] : k \in 0..(Len(Tgz(c)) - 1), e \in WriteErrs}

\* Mutant: the buffer of the last retrieval is kept and written to again.
WriteBufferRetained == [isNil |-> FALSE, bytes |-> prev.bytes]

\* The buffer Get hands to chartutil.Write: buf := bytes.NewBuffer(nil).
WriteBuffer == NewBuffer

\* buf := bytes.NewBuffer(nil); err = chartutil.Write(c, buf); return buf, err
Write ==
    /\ pc = "encode"
    /\ \E w \in WriteOutcomes(chart) :
         LET buf == [isNil |-> FALSE,
                     bytes |-> WriteBuffer.bytes \o Take(Tgz(chart), w.n)]
         IN  /\ calls' = Append(calls, [fn |-> "Write", ref |-> ref, chart |-> chart,
                                        out |-> Take(Tgz(chart), w.n), err |-> w.err])
             /\ result' = [buf |-> buf, err |-> w.err, str |-> <<>>]
    /\ pc' = "done"
    /\ UNCHANGED <<href, version, op, ref, chart, prev>>

\* Getter.URL called on the parsed locator.
CallURL ==
    /\ pc = "idle"
    /\ UrlParse(href).err = Nil
    /\ op' = "URL"
    /\ pc' = "done"
    /\ LET r == URL(UrlParse(href), version)
       IN  result' = [buf |-> NoBuf, err |-> r.err, str |-> r.url]
    /\ UNCHANGED <<href, version, ref, chart, calls, prev>>

\* RegistryGetter.Filename called on the parsed locator.
CallFilename ==
    /\ pc = "idle"
    /\ UrlParse(href).err = Nil
    /\ op' = "Filename"
    /\ pc' = "done"
    /\ result' = [buf |-> NoBuf, err |-> Nil,
                  str |-> Filename(UrlParse(href), version)]
    /\ UNCHANGED <<href, version, ref, chart, calls, prev>>

\* The call is over; the caller owns the result.  Nothing of it stays in the
\* getter: prev only remembers, for comparison, the last successful retrieval.
Return ==
    /\ pc = "done"
    /\ pc' = "idle"
    /\ op' = "none"
    /\ prev' = IF op \in {"Get", "GetWithDetails"} /\ result.err = Nil
               THEN [set |-> TRUE, op |-> op, chart |-> chart,
                     bytes |-> result.buf.bytes]
               ELSE prev
    /\ ref' = NoRef
    /\ chart' = NoChart
    /\ calls' = <<>>
    /\ result' = NoResult
    /\ UNCHANGED <<href, version>>

Next ==
    \/ Get
    \/ GetWithDetails
    \/ PullChart
    \/ LoadChart
    \/ Write
    \/ CallURL
    \/ CallFilename
    \/ Return

Spec == Init /\ [][Next]_vars

----------------------------------------------------------------------------
(* Properties.  The locators are described here by the positions of their   *)
(* separators, independently of the parsers above.                          *)

Retrieving == op \in {"Get", "GetWithDetails"}

\* The position of the first slash: the host ends before it.
HostEnd(h) == IndexOf(h, "/")

\* The positions of a tag separator: a ':' with no slash after it, preceded
\* by a non-empty name that follows a slash and holds no ':'.
TagSeps(h) ==
    {i \in 1..Len(h) :
        /\ h[i] = ":"
        /\ \A j \in (i+1)..Len(h) : h[j] # "/"
        /\ \E s \in 1..(i-2) :
              h[s] = "/" /\ \A j \in (s+1)..(i-1) : h[j] \notin {"/", ":"}}

\* A locator with a host, a named repository and a tag.
Tagged(h) == Len(h) > 0 /\ h[1] # "/" /\ TagSeps(h) # {}

\* A locator with a host and a named repository whose last segment has no ':'.
Untagged(h) ==
    /\ Len(h) > 0
    /\ h[1] # "/"
    /\ \E s \in 1..(Len(h)-1) :
          h[s] = "/" /\ \A j \in (s+1)..Len(h) : h[j] \notin {"/", ":"}

\* The Reference a tagged locator names: its host, its path, its tag.
TaggedRef(h) ==
    LET i == CHOOSE i \in TagSeps(h) : TRUE
    IN  [host |-> Take(h, HostEnd(h) - 1),
         repo |-> SubSeq(h, HostEnd(h) + 1, i - 1),
         hasTag |-> TRUE,
         tag |-> Drop(h, i)]

\* The Reference of an untagged locator with tag v.
VersionRef(h, v) ==
    [host |-> Take(h, HostEnd(h) - 1),
     repo |-> Drop(h, HostEnd(h)),
     hasTag |-> TRUE,
     tag |-> v]

AllCallsOn(r) == \A i \in 1..Len(calls) : calls[i].ref = r

\* C1: tag wins over explicit version.  For a locator with a tag T and any
\* version V, URL(locator, V) succeeds, equals URL(locator, ""), and names the
\* Reference tagged T; GetWithDetails hands exactly that Reference to
\* PullChart (and to every later collaborator call), never one tagged V.
C1_TagWins ==
    Tagged(href) =>
        /\ (op = "URL" /\ pc = "done") =>
              /\ result.err = Nil
              /\ result.str = URL(UrlParse(href), <<>>).url
              /\ URL(UrlParse(href), <<>>).err = Nil
              /\ ParseReference(result.str).ref = TaggedRef(href)
        /\ (op = "GetWithDetails" /\ pc # "idle") =>
              /\ ref = TaggedRef(href)
              /\ AllCallsOn(TaggedRef(href))
              /\ pc = "done" => calls # <<>>

\* C1 witness: a pull ran for a tagged locator called with a version other
\* than its tag.
C1_Witness ==
    /\ Tagged(href)
    /\ version # <<>>
    /\ version # TaggedRef(href).tag
    /\ TaggedRef(href).tag # <<>>
    /\ op = "GetWithDetails"
    /\ pc = "load"
    /\ calls # <<>>

\* C2: the explicit version is appended when no tag is present.  For an
\* untagged locator and a non-empty version V, URL succeeds with the locator
\* followed by ":" and V, and GetWithDetails retrieves the Reference made of
\* the locator's host and path with tag V.
C2_VersionAppended ==
    (Untagged(href) /\ version # <<>>) =>
        /\ (op = "URL" /\ pc = "done") =>
              /\ result.err = Nil
              /\ result.str = href \o <<":">> \o version
              /\ ParseReference(result.str).ref = VersionRef(href, version)
        /\ (op = "GetWithDetails" /\ pc # "idle") =>
              /\ ref = VersionRef(href, version)
              /\ AllCallsOn(VersionRef(href, version))
              /\ pc = "done" => calls # <<>>

\* C2 witness: oci://a/a with version 5 was retrieved as a/a:5.
C2_Witness ==
    /\ href = <<"a", "/", "a">>
    /\ version = <<"5">>
    /\ op = "GetWithDetails"
    /\ pc = "done"
    /\ result.err = Nil
    /\ Len(calls) = 3
    /\ calls[1].ref.tag = <<"5">>

C4_NoBufferOnEncodeError ==
    (Retrieving /\ pc = "done" /\ ref.hasTag /\ ref.tag # <<>>
        /\ Len(calls) = 3 /\ calls[3].err # Nil) =>
        result.err = calls[3].err /\ result.buf = NoBuf

\* C5: a failure of PullChart or of LoadChart ends Get with exactly that error
\* and no buffer; after a failed pull nothing else is called, after a failed
\* load chartutil.Write is not called.
C5_PullLoadErrors ==
    /\ (Retrieving /\ Len(calls) >= 1 /\ calls[1].err # Nil) =>
          /\ pc = "done"
          /\ Len(calls) = 1
          /\ calls[1].fn = "PullChart"
          /\ result = [buf |-> NoBuf, err |-> calls[1].err, str |-> <<>>]
    /\ (Retrieving /\ Len(calls) >= 2 /\ calls[2].err # Nil) =>
          /\ pc = "done"
          /\ Len(calls) = 2
          /\ calls[2].fn = "LoadChart"
          /\ result = [buf |-> NoBuf, err |-> calls[2].err, str |-> <<>>]

\* C5 witness: Get returned after PullChart succeeded and LoadChart failed.
C5_Witness ==
    /\ op = "Get"
    /\ pc = "done"
    /\ Len(calls) = 2
    /\ calls[1].err = Nil
    /\ calls[2].err \in LoadErrs

\* The path of a locator: what follows the host.
PathOf(h) == IF HostEnd(h) = 0 THEN <<>> ELSE Drop(h, HostEnd(h) - 1)

\* The last non-empty segment of a path, given by its first and last position.
LastSegments(p) ==
    {SubSeq(p, x[1], x[2]) :
        x \in {y \in (1..Len(p)) \X (1..Len(p)) :
                  /\ y[1] <= y[2]
                  /\ \A j \in y[1]..y[2] : p[j] # "/"
                  /\ y[1] > 1 => p[y[1] - 1] = "/"
                  /\ \A j \in (y[2] + 1)..Len(p) : p[j] = "/"}}

\* The part of a segment before its first ':'.
NameOf(g) ==
    Take(g, CHOOSE n \in 0..Len(g) :
                /\ \A j \in 1..n : g[j] # ":"
                /\ n = Len(g) \/ g[n + 1] = ":")

TgzExt == <<".", "t", "g", "z">>

\* C6: Filename(locator, version) is "<baseName>-<version>.tgz", baseName
\* being the part of the last path segment before its first ':' and version
\* the argument as given; a tag in the locator changes nothing, and for a
\* locator tagged T the name carries the version although URL resolves to T.
C6_Filename ==
    (op = "Filename" /\ pc = "done") =>
        /\ \A g \in LastSegments(PathOf(href)) :
              result.str = NameOf(g) \o <<"-">> \o version \o TgzExt
        /\ Tagged(href) =>
              LET i == CHOOSE i \in TagSeps(href) : TRUE
              IN  /\ result.str = Filename(UrlParse(Take(href, i - 1)), version)
                  /\ result.str =
                        SubSeq(href, LastIndexOf(href, "/") + 1, i - 1)
                            \o <<"-">> \o version \o TgzExt
                  /\ ParseReference(URL(UrlParse(href), version).url).ref.tag
                        = Drop(href, i)
        /\ Len(result.str) >= Len(version) + 5
        /\ Drop(result.str, Len(result.str) - (Len(version) + 5))
              = <<"-">> \o version \o TgzExt

\* C6 witness: the name of oci://a/a:5 asked with version a is a-a.tgz.
C6_Witness ==
    /\ href = <<"a", "/", "a", ":", "5">>
    /\ version = <<"a">>
    /\ op = "Filename"
    /\ pc = "done"
    /\ result.str = <<"a", "-", "a", ".", "t", "g", "z">>

\* C7: an href that url.Parse or ParseReference rejects (oci://a, a host
\* without repository, among them) makes Get return an error and no buffer
\* without calling PullChart, LoadChart or chartutil.Write.
C7_MalformedRejected ==
    (Retrieving /\ pc # "idle"
        /\ (\/ UrlParse(href).err # Nil
            \/ ParseReference(UrlParse(href).Host \o UrlParse(href).Path).err # Nil
            \/ HostEnd(href) = 0)) =>
        /\ pc = "done"
        /\ result.err # Nil
        /\ result.buf = NoBuf
        /\ calls = <<>>

\* C7 witness: Get returned for oci://a, and Get returned for a locator whose
\* port url.Parse rejects.
C7_Witness ==
    /\ op = "Get"
    /\ pc = "done"
    /\ \/ href = <<"a">>
       \/ href = <<"a", ":", "a", "/", "a">> /\ result.err = "invalid port"

\* C8: Get keeps nothing between calls.  A successful retrieval has run
\* PullChart, LoadChart and chartutil.Write itself, whatever came before, and
\* when the same call was made before and the registry returned the same chart
\* the two buffers are identical.
C8_Idempotent ==
    (Retrieving /\ pc = "done" /\ result.err = Nil) =>
        /\ Len(calls) = 3
        /\ calls[1].fn = "PullChart"
        /\ calls[2].fn = "LoadChart"
        /\ calls[3].fn = "Write"
        /\ (prev.set /\ prev.op = op /\ prev.chart = chart) =>
              result.buf.bytes = prev.bytes

\* C8 witness: a second identical Get succeeded with the same chart.
C8_Witness ==
    /\ op = "Get"
    /\ pc = "done"
    /\ result.err = Nil
    /\ prev.set
    /\ prev.op = "Get"
    /\ prev.chart = chart

\* C9: within one Get the collaborators are called in the order PullChart,
\* LoadChart, chartutil.Write, each at most once; LoadChart only after a
\* successful pull and with the same Reference; chartutil.Write only after a
\* successful load and on the chart it returned; a successful Get returns the
\* buffer chartutil.Write wrote.
C9_PipelineOrder ==
    Retrieving =>
        /\ Len(calls) <= 3
        /\ \A i \in 1..Len(calls) :
              /\ calls[i].fn = <<"PullChart", "LoadChart", "Write">>[i]
              /\ calls[i].ref = ref
              /\ i > 1 => calls[i-1].err = Nil
        /\ Len(calls) = 3 => calls[3].chart = calls[2].chart
        /\ pc = "pull" => Len(calls) = 0
        /\ pc = "load" => Len(calls) = 1
        /\ pc = "encode" => Len(calls) = 2
        /\ (pc = "done" /\ result.err = Nil) =>
              /\ Len(calls) = 3
              /\ calls[3].err = Nil
              /\ result.buf = [isNil |-> FALSE, bytes |-> calls[3].out]
              /\ calls[3].out = Tgz(calls[2].chart)

\* C9 witness: a Get ran the whole pipeline and returned the archive.
C9_Witness ==
    /\ op = "Get"
    /\ pc = "done"
    /\ result.err = Nil
    /\ Len(calls) = 3

\* C10: every Reference handed to PullChart or LoadChart carries a non-empty
\* tag, whatever the href.
C10_TagInvariant ==
    \A i \in 1..Len(calls) :
        calls[i].fn \in {"PullChart", "LoadChart"} =>
            calls[i].ref.hasTag /\ calls[i].ref.tag # <<>>

=============================================================================
